---- MODULE Spec2Model ----
(***************************************************************************)
(* A model of stsysd/deno-todotxt: the Todo record, its line parser        *)
(* (TODO_PAT and Todo.deserialize), its serializer, the store operations   *)
(* load / save / append, and the add, list and done commands.              *)
(*                                                                         *)
(* Text is a sequence of code units.  A character is its code point.  A    *)
(* run of ten characters of the shape dddd-dd-dd is ONE code unit: the     *)
(* number yyyymmdd (>= 10000000), so that the pattern \d\d\d\d-\d\d-\d\d   *)
(* matches exactly the units that are at least 10000000.                   *)
(*                                                                         *)
(* A JavaScript Date is <<year, month, day, t>>, month in 1..12, t = 0 for *)
(* local midnight and t = 1 for a later time of the same day.  An optional *)
(* field is <<>> when absent (undefined) and <<v>> when present.           *)
(***************************************************************************)
EXTENDS Integers, Sequences, FiniteSets, TLC

\* ------------------------------------------------------------- bounds
\* The longest whitespace run written between two fields of an input line.
MaxWs == 2
\* The longest description drawn for an input line or an input record.
MaxDesc == 2
\* The most terminated lines a todo file starts with.
MaxLines == 2
\* The most lines of a todo file that list is run on.
MaxListed == 3

\* ------------------------------------------------------------- characters
Ch == [x |-> 120, sp |-> 32, colon |-> 58, cr |-> 13, lp |-> 40, rp |-> 41,
       A |-> 65, B |-> 66, a |-> 97, zero |-> 48, one |-> 49, five |-> 53,
       minus |-> 45]

\* \s of a JavaScript regular expression (of the characters the model draws).
IsWs(c) == c \in {9, 10, 11, 12, 13, 32}
\* . of a JavaScript regular expression without the s flag.
IsDot(c) == c \notin {10, 13, 8232, 8233}
\* [A-Z]
IsUpper(c) == c \in 65..90
\* \d
IsDigit(c) == c \in 48..57
\* \d\d\d\d-\d\d-\d\d, one code unit of the model.
IsDateTok(c) == c >= 10000000

DateTok(y, m, d) == y * 10000 + m * 100 + d

\* ------------------------------------------------------------- dates
IsLeap(y) == (y % 4 = 0 /\ y % 100 # 0) \/ y % 400 = 0

\* Days of month mi (0-based, as JavaScript counts months) of year y.
DaysIn(y, mi) ==
  IF mi = 1 THEN (IF IsLeap(y) THEN 29 ELSE 28)
  ELSE IF mi \in {3, 5, 8, 10} THEN 30 ELSE 31

\* The day d (any integer >= 0) of month mi of year y, as Date normalises it.
RECURSIVE RollDay(_, _, _)
RollDay(y, mi, d) ==
  IF d < 1
    THEN LET py == IF mi = 0 THEN y - 1 ELSE y
             pm == IF mi = 0 THEN 11 ELSE mi - 1
         IN  RollDay(py, pm, d + DaysIn(py, pm))
  ELSE IF d > DaysIn(y, mi)
    THEN LET ny == IF mi = 11 THEN y + 1 ELSE y
             nm == IF mi = 11 THEN 0 ELSE mi + 1
         IN  RollDay(ny, nm, d - DaysIn(y, mi))
  ELSE <<y, mi, d>>

\* Date.prototype.setMonth(mi, d) on a date of year y: mi may be any integer.
SetMonth(y, mi, d) == RollDay(y + (mi \div 12), mi % 12, d)

\* parse(s, "yyyy-MM-dd") of std/datetime: a Date at local midnight whose year,
\* month and day are set from the three numbers, with no range check.
\* Date.prototype.setDate(d) on a date of year and month ym.
SetDate(ym, d) == RollDay(ym[1], ym[2], d)

\* A Date at local midnight, its month counted from 1.
Midnight(ymd) == <<ymd[1], ymd[2] + 1, ymd[3], 0>>

ParseDate(tok) ==
  Midnight(SetDate(SetMonth(tok \div 10000, ((tok \div 100) % 100) - 1, tok % 100),
                   tok % 100))

\* format(date, "yyyy-MM-dd") of std/datetime: the time of day is dropped.
FormatDate(date) == DateTok(date[1], date[2], date[3])

\* new Date(): the current instant, not at midnight.
Now == <<2023, 6, 15, 1>>

\* ------------------------------------------------------------- TODO_PAT
Max(S) == CHOOSE n \in S : \A m \in S : m <= n

\* The length of the whitespace run of line that starts at position i.
RECURSIVE WsRun(_, _)
WsRun(line, i) ==
  IF i <= Len(line) /\ IsWs(line[i]) THEN 1 + WsRun(line, i + 1) ELSE 0

NoMatch ==
  [ok |-> FALSE, completion |-> <<>>, priority |-> <<>>,
   completionDate |-> <<>>, creationDate |-> <<>>, description |-> <<>>]

\* (?<description>.+)$ from position i.
MatchDescription(line, i) ==
  IF i <= Len(line) /\ \A k \in i..Len(line) : IsDot(line[k])
    THEN [NoMatch EXCEPT !.ok = TRUE,
                         !.description = SubSeq(line, i, Len(line))]
    ELSE NoMatch

\* An optional group "field, then \s+" before the rest of the pattern.  The
\* group is greedy: it is taken with the longest whitespace run that lets the
\* rest match, and skipped only when no run does.  runs is the set of run
\* lengths that let the rest match; the rest then starts at RestAt.
RestAt(i, w, runs) == IF runs = {} THEN i ELSE i + w + Max(runs)

\* (?:(?<creationDate>\d\d\d\d-\d\d-\d\d)\s+)? and the rest, from position i.
CreationDateRuns(line, i) ==
  IF i <= Len(line) /\ IsDateTok(line[i])
    THEN {n \in 1..WsRun(line, i + 1) : MatchDescription(line, i + 1 + n).ok}
    ELSE {}

SetCreationDate(m, line, i, runs) ==
  IF runs = {} THEN m ELSE [m EXCEPT !.creationDate = <<line[i]>>]

MatchCreationDate(line, i) ==
  SetCreationDate(
    MatchDescription(line, RestAt(i, 1, CreationDateRuns(line, i))),
    line, i, CreationDateRuns(line, i))

\* (?:(?<completionDate>\d\d\d\d-\d\d-\d\d)\s+)? and the rest.
CompletionDateRuns(line, i) ==
  IF i <= Len(line) /\ IsDateTok(line[i])
    THEN {n \in 1..WsRun(line, i + 1) : MatchCreationDate(line, i + 1 + n).ok}
    ELSE {}

SetCompletionDate(m, line, i, runs) ==
  IF runs = {} THEN m ELSE [m EXCEPT !.completionDate = <<line[i]>>]

MatchCompletionDate(line, i) ==
  SetCompletionDate(
    MatchCreationDate(line, RestAt(i, 1, CompletionDateRuns(line, i))),
    line, i, CompletionDateRuns(line, i))

\* (?:\((?<priority>[A-Z])\)\s+)? and the rest.
PriorityRuns(line, i) ==
  IF /\ i + 2 <= Len(line)
     /\ line[i] = Ch.lp
     /\ IsUpper(line[i + 1])
     /\ line[i + 2] = Ch.rp
    THEN {n \in 1..WsRun(line, i + 3) : MatchCompletionDate(line, i + 3 + n).ok}
    ELSE {}

SetPriority(m, line, i, runs) ==
  IF runs = {} THEN m ELSE [m EXCEPT !.priority = <<line[i + 1]>>]

MatchPriority(line, i) ==
  SetPriority(
    MatchCompletionDate(line, RestAt(i, 3, PriorityRuns(line, i))),
    line, i, PriorityRuns(line, i))

\* ^(?:(?<completion>x| )\s+)? and the rest: TODO_PAT.exec(line).
CompletionRuns(line) ==
  IF 1 <= Len(line) /\ line[1] \in {Ch.x, Ch.sp}
    THEN {n \in 1..WsRun(line, 2) : MatchPriority(line, 2 + n).ok}
    ELSE {}

SetCompletion(m, line, runs) ==
  IF runs = {} THEN m ELSE [m EXCEPT !.completion = <<line[1]>>]

TodoPatExec(line) ==
  SetCompletion(
    MatchPriority(line, RestAt(1, 1, CompletionRuns(line))),
    line, CompletionRuns(line))

\* ------------------------------------------------------------- Todo
\* new Todo(description, opts): the fields are taken as given, unchecked.
Todo(description, completion, priority, completionDate, creationDate) ==
  [description |-> description, completion |-> completion,
   priority |-> priority, completionDate |-> completionDate,
   creationDate |-> creationDate]

\* if (group) field = parse(group, DATE_FMT)
ParseGroup(group) == IF group # <<>> THEN <<ParseDate(group[1])>> ELSE <<>>

\* Lines 85-94 of deserialize: a lone date goes to completionDate when the
\* record is completed and to creationDate when it is not.
Reconciled(t) ==
  IF (t.completionDate = <<>>) = (t.creationDate = <<>>) THEN t
  ELSE IF t.completion
    THEN [t EXCEPT !.completionDate = t.completionDate \o t.creationDate,
                   !.creationDate = <<>>]
    ELSE [t EXCEPT !.creationDate = t.completionDate \o t.creationDate,
                   !.completionDate = <<>>]

\* Lines 72-84 of deserialize: the record of a match.
OfMatch(mat) ==
  Todo(mat.description, mat.completion = <<Ch.x>>, mat.priority,
       ParseGroup(mat.completionDate), ParseGroup(mat.creationDate))

\* Deserialize without lines 85-94: a lone date stays in the group that matched.
DeserializeAsMatched(line) ==
  IF TodoPatExec(line).ok THEN <<OfMatch(TodoPatExec(line))>> ELSE <<>>

\* Todo.deserialize(line): <<>> is null, <<todo>> a record.
Deserialize(line) ==
  IF TodoPatExec(line).ok THEN <<Reconciled(OfMatch(TodoPatExec(line)))>> ELSE <<>>

\* words.join(" ")
RECURSIVE Join(_)
Join(words) ==
  IF words = <<>> THEN <<>>
  ELSE IF Len(words) = 1 THEN words[1]
  ELSE words[1] \o <<Ch.sp>> \o Join(Tail(words))

Spaces(n) == [k \in 1..n |-> Ch.sp]

\* serialize with the two dates pushed in the other order.
SerializeCreationFirst(todo, align) ==
  Join((IF todo.completion THEN << <<Ch.x>> >> ELSE <<>>)
       \o (IF todo.priority # <<>>
             THEN << <<Ch.lp>> \o todo.priority \o <<Ch.rp>> >> ELSE <<>>)
       \o (IF todo.creationDate # <<>>
             THEN << <<FormatDate(todo.creationDate[1])>> >> ELSE <<>>)
       \o (IF todo.completionDate # <<>>
             THEN << <<FormatDate(todo.completionDate[1])>> >> ELSE <<>>)
       \o <<todo.description>>)

\* todo.serialize({align}) without color; Serialize(todo, FALSE) is the
\* canonical form that save and append write.
Serialize(todo, align) ==
  LET w1 == IF todo.completion THEN << <<Ch.x>> >>
            ELSE IF align THEN << Spaces(1) >> ELSE <<>>
      w2 == IF todo.priority # <<>>
              THEN << <<Ch.lp>> \o todo.priority \o <<Ch.rp>> >>
            ELSE IF align THEN << Spaces(3) >> ELSE <<>>
      w3 == IF todo.completionDate # <<>>
              THEN << <<FormatDate(todo.completionDate[1])>> >>
            ELSE IF align THEN << Spaces(10) >> ELSE <<>>
      w4 == IF todo.creationDate # <<>>
              THEN << <<FormatDate(todo.creationDate[1])>> >>
            ELSE IF align THEN << Spaces(10) >> ELSE <<>>
  IN  Join(w1 \o w2 \o w3 \o w4 \o <<todo.description>>)

\* ------------------------------------------------------------- inputs
\* Two calendar dates, and a token of the date shape that is no calendar date.
D1 == DateTok(2023, 1, 1)
D2 == DateTok(2023, 1, 5)
DBad == DateTok(2023, 13, 1)

\* All sequences over S of length at most n.
RECURSIVE SeqsUpTo(_, _)
SeqsUpTo(S, n) ==
  IF n = 0 THEN {<<>>}
  ELSE LET shorter == SeqsUpTo(S, n - 1)
       IN  shorter \cup {<<c>> \o t : c \in S, t \in {u \in shorter : Len(u) = n - 1}}

\* Descriptions: short texts of a letter, a space and a carriage return, and
\* three texts that begin like a field of the line grammar.
DescSet ==
  SeqsUpTo({Ch.a, Ch.sp, Ch.cr}, MaxDesc)
    \cup {<<Ch.x, Ch.sp, Ch.a>>, <<Ch.lp, Ch.A, Ch.rp, Ch.sp, Ch.a>>,
          <<D1, Ch.sp, Ch.a>>}

\* A field followed by a run of 0..MaxWs spaces, or no field at all.
Slot(fields) ==
  {<<>>} \cup {f \o Spaces(n) : f \in fields, n \in 0..MaxWs}

\* The input lines: marker, priority, two dates and description, each field
\* present or not, well or badly separated, well or badly shaped.
LineSet ==
  {m \o p \o c \o r \o d :
      m \in Slot({<<Ch.x>>, <<Ch.sp>>}),
      p \in Slot({<<Ch.lp, Ch.A, Ch.rp>>, <<Ch.lp, Ch.a, Ch.rp>>}),
      c \in Slot({<<D2>>, <<DBad>>}),
      r \in Slot({<<D1>>}),
      d \in SeqsUpTo({Ch.a, Ch.sp, Ch.cr}, MaxDesc)}

VARIABLES
  pc,     \* the position of the run being modelled
  line,   \* the line given to deserialize
  todo,   \* <<>> or <<the record built or parsed>>
  text,   \* the canonical serialization of todo
  back,   \* the result of deserializing text again
  args,   \* the arguments given to the constructor
  file,   \* the todo file: its text split at "\n", so <<"">> is the empty file
  last,   \* the command run on the file: its inputs and the file before it
  loaded  \* what Todo.load returned when called after the command

recordVars == <<line, todo, text, back, args>>
storeVars == <<file, last, loaded>>
vars == <<pc, line, todo, text, back, args, file, last, loaded>>

NoFile == <<<<>>>>

\* ------------------------------------------------------------- parsing a line
InitParse ==
  /\ pc = "line"
  /\ line \in LineSet
  /\ todo = <<>>
  /\ text = <<>>
  /\ back = <<>>
  /\ args = <<>>
  /\ file = NoFile
  /\ last = <<>>
  /\ loaded = <<>>

\* Todo.deserialize(line)
DeserializeLine ==
  /\ pc = "line"
  /\ todo' = Deserialize(line)
  /\ pc' = IF todo' = <<>> THEN "rejected" ELSE "parsed"
  /\ UNCHANGED <<line, text, back, args, storeVars>>

\* todo.serialize()
SerializeTodo ==
  /\ pc \in {"parsed", "built"}
  /\ text' = Serialize(todo[1], FALSE)
  /\ pc' = IF pc = "parsed" THEN "printed" ELSE "written"
  /\ UNCHANGED <<line, todo, back, args, storeVars>>

NextParse == DeserializeLine \/ SerializeTodo

SpecParse == InitParse /\ [][NextParse]_vars

\* ------------------------------------------------------------- the line grammar
\* The grammar of a line read left to right, without the pattern: a field of
\* width w at position i is read when whitespace follows it and at least one
\* character is left for the description.  GrammarNext is the position after
\* the field and its whitespace, or 0 when the field is not read.
GrammarNext(ln, i, w) ==
  LET r == WsRun(ln, i + w)
      left == Len(ln) - (i + w - 1)
  IN  IF r >= 1 /\ left >= 2
        THEN i + w + (IF r = left THEN r - 1 ELSE r)
        ELSE 0

GrammarFields(ln) ==
  LET m  == IF Len(ln) >= 1 /\ ln[1] \in {Ch.x, Ch.sp}
              THEN GrammarNext(ln, 1, 1) ELSE 0
      p1 == IF m # 0 THEN m ELSE 1
      p  == IF /\ p1 + 2 <= Len(ln)
               /\ ln[p1] = Ch.lp /\ IsUpper(ln[p1 + 1]) /\ ln[p1 + 2] = Ch.rp
              THEN GrammarNext(ln, p1, 3) ELSE 0
      p2 == IF p # 0 THEN p ELSE p1
      c  == IF p2 <= Len(ln) /\ IsDateTok(ln[p2])
              THEN GrammarNext(ln, p2, 1) ELSE 0
      p3 == IF c # 0 THEN c ELSE p2
      r  == IF c # 0 /\ p3 <= Len(ln) /\ IsDateTok(ln[p3])
              THEN GrammarNext(ln, p3, 1) ELSE 0
      p4 == IF r # 0 THEN r ELSE p3
  IN  [marker      |-> IF m # 0 THEN <<ln[1]>> ELSE <<>>,
       priority    |-> IF p # 0 THEN SubSeq(ln, p1, p1 + 2) ELSE <<>>,
       dates       |-> (IF c # 0 THEN <<ln[p2]>> ELSE <<>>)
                         \o (IF r # 0 THEN <<ln[p3]>> ELSE <<>>),
       description |-> SubSeq(ln, p4, Len(ln))]

\* The line with every whitespace run between two fields made one space.
CollapseLine(ln) ==
  LET g == GrammarFields(ln)
  IN  Join((IF g.marker # <<>> THEN <<g.marker>> ELSE <<>>)
           \o (IF g.priority # <<>> THEN <<g.priority>> ELSE <<>>)
           \o [k \in 1..Len(g.dates) |-> <<g.dates[k]>>]
           \o <<g.description>>)

\* C1: for every accepted line, two date tokens become completionDate and
\* creationDate in that order; a lone date token becomes completionDate when
\* the line starts with x and creationDate otherwise; with no date token both
\* date fields are absent.
C1_DateReconciliation ==
  (pc = "parsed") =>
    LET ds == GrammarFields(line).dates
        t  == todo[1]
    IN  /\ Len(ds) = 2 =>
             /\ t.completionDate = <<ParseDate(ds[1])>>
             /\ t.creationDate = <<ParseDate(ds[2])>>
        /\ (Len(ds) = 1 /\ line[1] = Ch.x) =>
             /\ t.completionDate = <<ParseDate(ds[1])>>
             /\ t.creationDate = <<>>
        /\ (Len(ds) = 1 /\ line[1] # Ch.x) =>
             /\ t.creationDate = <<ParseDate(ds[1])>>
             /\ t.completionDate = <<>>
        /\ Len(ds) = 0 => (t.completionDate = <<>> /\ t.creationDate = <<>>)

\* A line without the marker x and with one date token has been parsed: the
\* date went to creationDate.
C1_Witness ==
  /\ pc = "parsed"
  /\ Len(GrammarFields(line).dates) = 1
  /\ line[1] # Ch.x
  /\ todo[1].creationDate # <<>>

\* C2: the canonical serialization of the record parsed from an accepted line
\* is that line with the whitespace runs between its fields collapsed.
C2_LineRoundTrip ==
  (pc = "printed") => text = CollapseLine(line)

\* ------------------------------------------------------------- building a record
DateSet == {<<>>, <<ParseDate(D1)>>, <<<<2023, 1, 5, 1>>>>}

ArgSet ==
  [description : DescSet, completion : BOOLEAN,
   priority : {<<>>, <<Ch.A>>, <<Ch.a>>},
   completionDate : DateSet, creationDate : DateSet]

InitRecord ==
  /\ pc = "args"
  /\ args \in ArgSet
  /\ line = <<>>
  /\ todo = <<>>
  /\ text = <<>>
  /\ back = <<>>
  /\ file = NoFile
  /\ last = <<>>
  /\ loaded = <<>>

\* new Todo(description, {completion, priority, completionDate, creationDate})
Construct ==
  /\ pc = "args"
  /\ todo' = <<Todo(args.description, args.completion, args.priority,
                    args.completionDate, args.creationDate)>>
  /\ pc' = "built"
  /\ UNCHANGED <<line, text, back, args, storeVars>>

\* Todo.deserialize(todo.serialize())
DeserializeText ==
  /\ pc = "written"
  /\ back' = Deserialize(text)
  /\ pc' = "reparsed"
  /\ UNCHANGED <<line, todo, text, args, storeVars>>

NextRecord == Construct \/ SerializeTodo \/ DeserializeText

SpecRecord == InitRecord /\ [][NextRecord]_vars

\* The calendar day of an optional Date.
DayOf(d) == IF d = <<>> THEN <<>> ELSE <<SubSeq(d[1], 1, 3)>>

\* C3 as stated: deserializing the canonical serialization of any record
\* yields a record with the same five fields.  The records are those of the
\* data model (a description that is not empty, a priority absent or one
\* letter A-Z) and the dates are compared as calendar days.
C3_RecordRoundTrip ==
  (/\ pc = "reparsed"
   /\ todo[1].description # <<>>
   /\ todo[1].priority = <<>> \/ IsUpper(todo[1].priority[1])) =>
    /\ back # <<>>
    /\ back[1].description = todo[1].description
    /\ back[1].completion = todo[1].completion
    /\ back[1].priority = todo[1].priority
    /\ DayOf(back[1].creationDate) = DayOf(todo[1].creationDate)
    /\ DayOf(back[1].completionDate) = DayOf(todo[1].completionDate)

\* The records the line format can carry: the description is not empty, has
\* no line terminator, starts with no whitespace and with nothing the grammar
\* reads as a field; the priority is absent or one letter A-Z; the years have
\* four digits; a lone date is the completionDate of a completed record or the
\* creationDate of an open one.
Carried(t) ==
  /\ t.description # <<>>
  /\ \A k \in 1..Len(t.description) : IsDot(t.description[k])
  /\ ~IsWs(t.description[1])
  /\ LET g == GrammarFields(t.description)
     IN  g.marker = <<>> /\ g.priority = <<>> /\ g.dates = <<>>
  /\ t.priority = <<>> \/ (Len(t.priority) = 1 /\ IsUpper(t.priority[1]))
  /\ \A d \in {t.completionDate, t.creationDate} :
        d # <<>> => d[1][1] \in 1000..9999
  /\ (t.completionDate # <<>> /\ t.creationDate = <<>>) => t.completion
  /\ (t.completionDate = <<>> /\ t.creationDate # <<>>) => ~t.completion

\* C3 (amended): for every record the line format can carry, deserializing
\* its canonical serialization yields a record with the same description,
\* completion and priority and with both dates on the same calendar days.
C3_CarriedRoundTrip ==
  (pc = "reparsed" /\ Carried(todo[1])) =>
    /\ back # <<>>
    /\ back[1].description = todo[1].description
    /\ back[1].completion = todo[1].completion
    /\ back[1].priority = todo[1].priority
    /\ DayOf(back[1].completionDate) = DayOf(todo[1].completionDate)
    /\ DayOf(back[1].creationDate) = DayOf(todo[1].creationDate)

\* A completed record with a priority and two different dates went through
\* serialize and deserialize.
C3_Witness ==
  /\ pc = "reparsed"
  /\ Carried(todo[1])
  /\ todo[1].completion
  /\ todo[1].priority # <<>>
  /\ todo[1].completionDate # <<>>
  /\ todo[1].creationDate # <<>>
  /\ todo[1].completionDate # todo[1].creationDate

\* C8: no record has an empty description: a construction with an empty
\* description fails and yields none.
C8_NonEmptyDescription ==
  (pc = "built") => todo[1].description # <<>>

\* ------------------------------------------------------------- the store
\* A load that gives up at the first line that does not parse.
LoadUntilBad(f) ==
  LET bad == {i \in 1..Len(f) : f[i] # <<>> /\ Deserialize(f[i]) = <<>>}
      upto == IF bad = {} THEN Len(f) ELSE (CHOOSE i \in bad : \A j \in bad : i <= j) - 1
      good == SelectSeq([i \in 1..upto |-> i], LAMBDA i : f[i] # <<>>)
  IN  [todos    |-> [k \in 1..Len(good) |-> Deserialize(f[good[k]])[1]],
       warnings |-> IF bad = {} THEN <<>> ELSE <<upto>>]

\* Todo.load(fname): the records of the lines that parse, in line order, and
\* the indices i of the lines console.warn reports.
Load(f) ==
  LET parsed == [i \in 1..Len(f) |->
                   IF f[i] = <<>> THEN <<>> ELSE Deserialize(f[i])]
      kept   == SelectSeq(parsed, LAMBDA t : t # <<>>)
      idx    == SelectSeq([i \in 1..Len(f) |-> i],
                          LAMBDA i : f[i] # <<>> /\ parsed[i] = <<>>)
  IN  [todos    |-> [k \in 1..Len(kept) |-> kept[k][1]],
       warnings |-> [k \in 1..Len(idx) |-> idx[k] - 1]]

\* Deno.writeTextFile(fname, s + "\n", {append: true}): s joins the last,
\* unterminated piece of the file and a new empty piece follows the "\n".
AppendText(f, s) ==
  [f EXCEPT ![Len(f)] = @ \o s] \o <<<<>>>>

\* The text Todo.save writes: every record's canonical line and a "\n" each.
SaveText(todos) ==
  [k \in 1..Len(todos) |-> Serialize(todos[k], FALSE)] \o <<<<>>>>

\* parseInt(s): <<>> is NaN.  Leading whitespace and a sign are read, then
\* decimal digits up to the first other character.
RECURSIVE Digits(_, _, _)
Digits(s, i, acc) ==
  IF i <= Len(s) /\ IsDigit(s[i])
    THEN Digits(s, i + 1, acc * 10 + (s[i] - 48))
    ELSE acc

ParseInt(s) ==
  LET i == 1 + WsRun(s, 1)
      neg == i <= Len(s) /\ s[i] = Ch.minus
      j == IF neg THEN i + 1 ELSE i
  IN  IF j <= Len(s) /\ IsDigit(s[j])
        THEN <<(IF neg THEN 0 - Digits(s, j, 0) ELSE Digits(s, j, 0))>>
        ELSE <<>>

\* ------------------------------------------------------------- add
\* Add.priority_: the value of --priority when given, else the first of the
\* flags -A -B -C -D.  threw stands for the throw of line 44.
PriorityGetter(priority, fA, fB, fC, fD) ==
  IF priority # <<>>
    THEN IF IsUpper(priority[1])
           THEN [threw |-> TRUE, value |-> <<>>]
           ELSE [threw |-> FALSE, value |-> <<priority[1]>>]
  ELSE IF fA THEN [threw |-> FALSE, value |-> <<Ch.A>>]
  ELSE IF fB THEN [threw |-> FALSE, value |-> <<Ch.B>>]
  ELSE IF fC THEN [threw |-> FALSE, value |-> <<67>>]
  ELSE IF fD THEN [threw |-> FALSE, value |-> <<68>>]
  ELSE [threw |-> FALSE, value |-> <<>>]

\* What the user may type at the two prompts of Add.interactive: validate
\* lets through the empty answer and one letter A-Z; the description prompt
\* takes any answer.
PromptPriorities == {<<>>, <<Ch.A>>}
AddDescriptions == {<<>>, <<Ch.a>>, <<Ch.sp, Ch.a>>}
PriorityOptions == {<<>>, <<Ch.A>>, <<Ch.a>>}

\* Add.execute: the record is built from the arguments, or from the prompts
\* when no description is given, and appended to the file.  A throw of
\* priority_ ends the command before the append.
AddExecute(description, priority, fA, fB, fC, fD, askedPriority, askedDescription) ==
  LET got == PriorityGetter(priority, fA, fB, fC, fD)
      made == IF description # <<>>
                THEN Todo(description, FALSE, got.value, <<>>, <<Now>>)
                ELSE Todo(askedDescription, FALSE, askedPriority, <<>>, <<Now>>)
      threw == description # <<>> /\ got.threw
  IN  /\ pc = "idle"
      /\ file' = IF threw THEN file ELSE AppendText(file, Serialize(made, FALSE))
      /\ last' = [op |-> "add", before |-> file, description |-> description,
                  priority |-> priority, threw |-> threw,
                  rec |-> IF threw THEN <<>> ELSE <<made>>]
      /\ pc' = "ran"
      /\ UNCHANGED <<loaded, recordVars>>

\* Todo.append(fname, todo), called with a record of the caller's making.
TodoAppend(r) ==
  /\ pc = "idle"
  /\ file' = AppendText(file, Serialize(r, FALSE))
  /\ last' = [op |-> "append", before |-> file, rec |-> <<r>>]
  /\ pc' = "ran"
  /\ UNCHANGED <<loaded, recordVars>>

\* Todo.load(fname), the file being there: on the file as it was found, or
\* after a command.
LoadFile ==
  /\ pc \in {"idle", "ran"}
  /\ loaded' = Load(file)
  /\ pc' = "loaded"
  /\ UNCHANGED <<file, last, recordVars>>

\* ------------------------------------------------------------- done
\* /^(\d+):/ on a line of the standard input: <<>> or <<the digits>>.
StdinIndex(ln) ==
  LET n == CHOOSE k \in 0..Len(ln) :
              /\ \A j \in 1..k : IsDigit(ln[j])
              /\ (k = Len(ln) \/ ~IsDigit(ln[k + 1]))
  IN  IF n >= 1 /\ n < Len(ln) /\ ln[n + 1] = Ch.colon
        THEN <<SubSeq(ln, 1, n)>> ELSE <<>>

\* The body of the loop of lines 163-177 for one input.
MarkDone(todos, input) ==
  LET ix == ParseInt(input)
  IN  IF ix = <<>> THEN todos
      ELSE IF ix[1] < 0 \/ ix[1] >= Len(todos) THEN todos
      ELSE [todos EXCEPT ![ix[1] + 1] =
              [@ EXCEPT !.completion = TRUE, !.completionDate = <<Now>>]]

RECURSIVE MarkAll(_, _)
MarkAll(todos, inputs) ==
  IF inputs = <<>> THEN todos
  ELSE MarkAll(MarkDone(todos, Head(inputs)), Tail(inputs))

\* Complete.execute: load, take the inputs from the arguments or else from
\* the standard input, mark, save.
CompleteExecute(inputs, stdin) ==
  LET fromStdin == SelectSeq([k \in 1..Len(stdin) |-> StdinIndex(stdin[k])],
                             LAMBDA m : m # <<>>)
      ins == IF Len(inputs) = 0
               THEN [k \in 1..Len(fromStdin) |-> fromStdin[k][1]]
               ELSE inputs
  IN  /\ pc = "idle"
      /\ file' = SaveText(MarkAll(Load(file).todos, ins))
      /\ last' = [op |-> "done", before |-> file, inputs |-> ins]
      /\ pc' = "ran"
      /\ UNCHANGED <<loaded, recordVars>>

\* ------------------------------------------------------------- the store commands
\* The lines a todo file starts with: two well-formed lines, a line that starts
\* with the blank marker, one with a leading space, one that ends in a
\* carriage return, and the empty line.
StoreLines ==
  {<<Ch.a>>,
   <<Ch.x, Ch.sp, D2, Ch.sp, D1, Ch.sp, Ch.a>>,
   <<Ch.sp, Ch.sp, Ch.x, Ch.sp, Ch.a>>,
   <<Ch.sp, Ch.a>>,
   <<Ch.a, Ch.cr>>,
   <<>>}

\* The texts a todo file starts with: up to MaxLines lines, each ended by
\* "\n", and then nothing or a last line without its "\n".
StoreTexts ==
  {ls \o <<tl>> : ls \in SeqsUpTo(StoreLines, MaxLines), tl \in {<<>>, <<Ch.a>>}}

\* The records handed to Todo.append directly.
AppendRecords ==
  {Todo(<<Ch.a>>, FALSE, <<>>, <<>>, <<>>),
   Todo(<<Ch.a>>, FALSE, <<Ch.A>>, <<>>, <<ParseDate(D1)>>),
   Todo(<<Ch.a>>, TRUE, <<>>, <<ParseDate(D2)>>, <<ParseDate(D1)>>),
   Todo(<<Ch.a>>, TRUE, <<>>, <<>>, <<ParseDate(D1)>>)}

IndexInputs ==
  {<<Ch.zero>>, <<Ch.one>>, <<Ch.five>>, <<Ch.a>>, <<Ch.minus, Ch.one>>}

StdinLines == {<<Ch.zero, Ch.colon, Ch.sp, Ch.a>>, <<Ch.one>>}

Init ==
  /\ pc = "idle"
  /\ file \in StoreTexts
  /\ last = [op |-> "none", before |-> file]
  /\ loaded = <<>>
  /\ line = <<>>
  /\ todo = <<>>
  /\ text = <<>>
  /\ back = <<>>
  /\ args = <<>>

\* add with a description takes its priority from the options; add without
\* one asks for both; done reads the standard input only without arguments.
Next ==
  \/ \E description \in AddDescriptions \ {<<>>}, priority \in PriorityOptions,
        fA, fB, fC, fD \in BOOLEAN :
        AddExecute(description, priority, fA, fB, fC, fD, <<>>, <<>>)
  \/ \E askedPriority \in PromptPriorities, askedDescription \in AddDescriptions :
        AddExecute(<<>>, <<>>, FALSE, FALSE, FALSE, FALSE,
                   askedPriority, askedDescription)
  \/ \E r \in AppendRecords : TodoAppend(r)
  \/ LoadFile
  \/ \E inputs \in SeqsUpTo(IndexInputs, 2) \ {<<>>} :
        CompleteExecute(inputs, <<>>)
  \/ \E stdin \in SeqsUpTo(StdinLines, 1) : CompleteExecute(<<>>, stdin)

Spec == Init /\ [][Next]_vars

\* ------------------------------------------------------------- the store claims
\* The members of a set of numbers in ascending order.
Ascending(S) ==
  CHOOSE q \in [1..Cardinality(S) -> S] :
    \A a, b \in 1..Cardinality(S) : a < b => q[a] < q[b]

\* A line matches the grammar: it is not empty and its description, read by
\* the grammar, holds no line terminator.
Accepts(ln) ==
  /\ ln # <<>>
  /\ \A k \in 1..Len(GrammarFields(ln).description) :
        IsDot(GrammarFields(ln).description[k])

\* Two records are field-equal, their dates compared as calendar days.
SameFields(t, u) ==
  /\ t.description = u.description
  /\ t.completion = u.completion
  /\ t.priority = u.priority
  /\ DayOf(t.completionDate) = DayOf(u.completionDate)
  /\ DayOf(t.creationDate) = DayOf(u.creationDate)

\* C6: load returns one record per non-empty line that matches the grammar,
\* in line order, and one warning per non-empty line that does not; empty
\* lines give neither, and the lines after a bad line are still read.
C6_LoadSkipsBadLines ==
  (pc = "loaded") =>
    LET good == {i \in 1..Len(file) : Accepts(file[i])}
        bad  == {i \in 1..Len(file) : file[i] # <<>> /\ ~Accepts(file[i])}
    IN  /\ Len(loaded.todos) = Cardinality(good)
        /\ \A k \in 1..Cardinality(good) :
              <<loaded.todos[k]>> = Deserialize(file[Ascending(good)[k]])
        /\ Len(loaded.warnings) = Cardinality(bad)
        /\ \A k \in 1..Cardinality(bad) :
              loaded.warnings[k] = Ascending(bad)[k] - 1

\* A file whose first line does not parse and whose second line does has
\* been loaded: one warning, and the record of the second line.
C6_Witness ==
  /\ pc = "loaded"
  /\ Len(file) >= 2
  /\ file[1] # <<>> /\ ~Accepts(file[1])
  /\ Accepts(file[2])
  /\ loaded.warnings # <<>>
  /\ loaded.todos # <<>>

\* C4: append followed by load returns the collection load returned before
\* the append, the same records at the same indices, and one more record,
\* field-equal to the appended one, at the end; the text that was in the file
\* is still there, unchanged, before the appended line.
C4_AppendThenLoad ==
  (pc = "loaded" /\ last.op = "append") =>
    LET before == Load(last.before).todos
        n == Len(last.before)
    IN  /\ Len(loaded.todos) = Len(before) + 1
        /\ SubSeq(loaded.todos, 1, Len(before)) = before
        /\ SameFields(loaded.todos[Len(loaded.todos)], last.rec[1])
        /\ Len(file) >= n
        /\ SubSeq(file, 1, n - 1) = SubSeq(last.before, 1, n - 1)
        /\ SubSeq(file[n], 1, Len(last.before[n])) = last.before[n]

\* C7: add with a description and a --priority value outside A-Z fails
\* before the append and leaves the file as it was; no record with a
\* priority outside A-Z is appended by add with a description.
C7_InvalidPriorityRejected ==
  (last.op = "add" /\ last.description # <<>>) =>
    /\ (last.priority # <<>> /\ ~IsUpper(last.priority[1])) =>
          (last.threw /\ file = last.before)
    /\ last.rec # <<>> =>
          (last.rec[1].priority = <<>> \/ IsUpper(last.rec[1].priority[1]))

\* An index input as the claim reads it: digits only.
IndexValue(input) ==
  IF input # <<>> /\ \A k \in 1..Len(input) : IsDigit(input[k])
    THEN <<Digits(input, 1, 0)>> ELSE <<>>

\* C10: after done, the loaded collection has the records it had before, in
\* the same order; those at a given valid index are completed today, and
\* nothing else differs.
C10_DoneChangesOnlyTargets ==
  (pc = "loaded" /\ last.op = "done") =>
    LET before == Load(last.before).todos
        given == {k \in 0..(Len(before) - 1) :
                    \E j \in 1..Len(last.inputs) : IndexValue(last.inputs[j]) = <<k>>}
    IN  /\ Len(loaded.todos) = Len(before)
        /\ \A i \in 1..Len(before) :
              IF (i - 1) \in given
                THEN SameFields(loaded.todos[i],
                                [before[i] EXCEPT !.completion = TRUE,
                                                  !.completionDate = <<Now>>])
                ELSE SameFields(loaded.todos[i], before[i])

\* ------------------------------------------------------------- list
\* The values compare is called with, as sequences of numbers: <<>> is
\* undefined, a boolean is <<0>> or <<1>>, a string its characters, a Date its
\* year, month, day and time, a number itself.  < and > of JavaScript order
\* each kind as the sequences are ordered, place by place.
KeyOfBool(b) == IF b THEN <<1>> ELSE <<0>>
KeyOfDate(d) == IF d = <<>> THEN <<>> ELSE d[1]

RECURSIVE SeqLess(_, _)
SeqLess(l, r) ==
  IF r = <<>> THEN FALSE
  ELSE IF l = <<>> THEN TRUE
  ELSE IF Head(l) # Head(r) THEN Head(l) < Head(r)
  ELSE SeqLess(Tail(l), Tail(r))

\* compare(l, r) of src/cli.ts.
Compare(l, r) ==
  IF l = r THEN 0
  ELSE IF l = <<>> THEN 0 - 1
  ELSE IF r = <<>> THEN 1
  ELSE IF SeqLess(l, r) THEN 0 - 1
  ELSE IF SeqLess(r, l) THEN 1
  ELSE 0

\* compare(l, r) of the other revision: no test of l === r first.
CompareRev(l, r) ==
  IF l = <<>> THEN 0 - 1
  ELSE IF r = <<>> THEN 1
  ELSE IF SeqLess(l, r) THEN 0 - 1
  ELSE IF SeqLess(r, l) THEN 1
  ELSE 0

\* a || b on numbers.
OrElse(a, b) == IF a # 0 THEN a ELSE b

\* The comparator of List.execute in src/cli.ts on two [index, todo] pairs.
ListCompare(a, b) ==
  OrElse(Compare(KeyOfBool(a[2].completion), KeyOfBool(b[2].completion)),
  OrElse(Compare(a[2].priority, b[2].priority),
  OrElse(Compare(KeyOfDate(a[2].creationDate), KeyOfDate(b[2].creationDate)),
         Compare(<<a[1]>>, <<b[1]>>))))

\* The comparator of List.execute in the other revision.
ListCompareRev(a, b) ==
  OrElse(CompareRev(KeyOfBool(a[2].completion), KeyOfBool(b[2].completion)),
         CompareRev(a[2].priority, b[2].priority))

\* The comparator of the revision rv: "cli" is src/cli.ts, "part_000" the other.
Comparator(rv, a, b) ==
  IF rv = "part_000" THEN ListCompareRev(a, b) ELSE ListCompare(a, b)

\* Array.prototype.sort with a consistent comparator: the stable order.  The
\* element at position j goes after those that compare below it and after
\* the equal ones that stood before it.
SortRank(s, j, rv) ==
  Cardinality({m \in 1..Len(s) :
                  \/ Comparator(rv, s[m], s[j]) < 0
                  \/ (Comparator(rv, s[m], s[j]) = 0 /\ m < j)})

StableSort(s, rv) ==
  [k \in 1..Len(s) |-> s[CHOOSE j \in 1..Len(s) : SortRank(s, j, rv) = k - 1]]

Sign(n) == IF n < 0 THEN 0 - 1 ELSE IF n > 0 THEN 1 ELSE 0

\* A consistent comparator for the elements of s, as ECMAScript defines it;
\* with any other comparator the order sort leaves is implementation-defined.
Consistent(s, rv) ==
  LET E == {s[k] : k \in 1..Len(s)}
  IN  /\ \A a \in E : Comparator(rv, a, a) = 0
      /\ \A a, b \in E : Sign(Comparator(rv, a, b)) = 0 - Sign(Comparator(rv, b, a))
      /\ \A a, b, c \in E :
            /\ (Comparator(rv, a, b) = 0 /\ Comparator(rv, b, c) = 0) => Comparator(rv, a, c) = 0
            /\ (Comparator(rv, a, b) < 0 /\ Comparator(rv, b, c) < 0) => Comparator(rv, a, c) < 0
            /\ (Comparator(rv, a, b) < 0 /\ Comparator(rv, b, c) = 0) => Comparator(rv, a, c) < 0
            /\ (Comparator(rv, a, b) = 0 /\ Comparator(rv, b, c) < 0) => Comparator(rv, a, c) < 0

\* The orders of the elements of s.
Orders(s) ==
  {[k \in 1..Len(s) |-> s[q[k]]] :
     q \in {f \in [1..Len(s) -> 1..Len(s)] :
              \A a, b \in 1..Len(s) : a # b => f[a] # f[b]}}

\* description.includes(f)
Includes(d, f) ==
  \E i \in 1..(Len(d) + 1) :
     i + Len(f) - 1 <= Len(d) /\ SubSeq(d, i, i + Len(f) - 1) = f

\* Lines 109-117: the [index, todo] pairs kept by the two filters.
Kept(todos, all, filter) ==
  SelectSeq([i \in 1..Len(todos) |-> <<i - 1, todos[i]>>],
            LAMBDA e : /\ all \/ ~e[2].completion
                       /\ Len(filter) > 0 =>
                            \E k \in 1..Len(filter) :
                               Includes(e[2].description, filter[k]))

\* List.execute of src/cli.ts: out is the order in which the pairs are printed.
ListExecute(all, filter) ==
  /\ pc = "idle"
  /\ last' = [op |-> "list", before |-> file, all |-> all, filter |-> filter,
              out |-> StableSort(Kept(Load(file).todos, all, filter), "cli")]
  /\ pc' = "ran"
  /\ UNCHANGED <<file, loaded, recordVars>>

\* List.execute of the other revision.
ListExecuteRev(all, filter) ==
  /\ pc = "idle"
  /\ \E out \in Orders(Kept(Load(file).todos, all, filter)) :
        /\ Consistent(out, "part_000") =>
              out = StableSort(Kept(Load(file).todos, all, filter), "part_000")
        /\ last' = [op |-> "list", before |-> file, all |-> all,
                    filter |-> filter, out |-> out]
  /\ pc' = "ran"
  /\ UNCHANGED <<file, loaded, recordVars>>

ListLines ==
  {<<Ch.a>>,
   <<Ch.lp, Ch.A, Ch.rp, Ch.sp, Ch.a>>,
   <<Ch.lp, Ch.A, Ch.rp, Ch.sp, D2, Ch.sp, Ch.a>>,
   <<Ch.lp, Ch.A, Ch.rp, Ch.sp, D1, Ch.sp, Ch.a>>,
   <<Ch.lp, Ch.B, Ch.rp, Ch.sp, Ch.x>>,
   <<Ch.x, Ch.sp, Ch.a>>,
   <<D1, Ch.sp, Ch.a>>}

ListFilters == {<<>>, <<<<Ch.a>>>>, <<<<Ch.x>>, <<Ch.B>>>>}

InitList ==
  /\ pc = "idle"
  /\ file \in {ls \o <<<<>>>> : ls \in SeqsUpTo(ListLines, MaxListed)}
  /\ last = [op |-> "none", before |-> file]
  /\ loaded = <<>>
  /\ line = <<>>
  /\ todo = <<>>
  /\ text = <<>>
  /\ back = <<>>
  /\ args = <<>>

NextList ==
  \/ \E all \in BOOLEAN, filter \in ListFilters : ListExecute(all, filter)
  \/ \E all \in BOOLEAN, filter \in ListFilters : ListExecuteRev(all, filter)

SpecList == InitList /\ [][NextList]_vars

\* The order of the claim: completion, then priority, then creationDate, then
\* index, each ascending, an absent value before any present one.
RankOfOption(v) == IF v = <<>> THEN <<0>> ELSE <<1>> \o v

ListKey(e) ==
  KeyOfBool(e[2].completion)
    \o <<RankOfOption(e[2].priority), RankOfOption(KeyOfDate(e[2].creationDate)), <<e[1]>> >>

RECURSIVE KeyLess(_, _)
KeyLess(k, l) ==
  IF k = <<>> \/ l = <<>> THEN FALSE
  ELSE IF Head(k) = Head(l) THEN KeyLess(Tail(k), Tail(l))
  ELSE IF Len(k) = 4 THEN Head(k) < Head(l)
  ELSE SeqLess(Head(k), Head(l))

\* C5: the pairs list prints are in the order of the claim: no pair is
\* followed by one that the order puts before it.
C5_ListOrder ==
  (last.op = "list") =>
    \A k \in 1..(Len(last.out) - 1) :
       ~KeyLess(ListKey(last.out[k + 1]), ListKey(last.out[k]))

\* ------------------------------------------------------------- save and a reader
\* Todo.save is one Deno.writeTextFile(fname, data): the file is opened and
\* cut to length zero, then data is written, in one or in several writes.
\* Another process may read the file between any two of these steps.  Here
\* Complete.execute has loaded and marked the records and opens the file.
CompleteOpensFile(inputs) ==
  /\ pc = "idle"
  /\ last' = [op |-> "save", before |-> file,
              data |-> SaveText(MarkAll(Load(file).todos, inputs)),
              written |-> 0]
  /\ file' = NoFile
  /\ pc' = "writing"
  /\ UNCHANGED <<loaded, recordVars>>

\* One write of the writer: the lines up to the n-th are now in the file.
SaveWrites(n) ==
  /\ pc = "writing"
  /\ n > last.written
  /\ n <= Len(last.data) - 1
  /\ file' = SubSeq(last.data, 1, n) \o <<<<>>>>
  /\ last' = [last EXCEPT !.written = n]
  /\ pc' = IF n = Len(last.data) - 1 THEN "saved" ELSE "writing"
  /\ UNCHANGED <<loaded, recordVars>>

\* The writer closes a file it had nothing to write to.
SaveWritesNothing ==
  /\ pc = "writing"
  /\ Len(last.data) = 1
  /\ pc' = "saved"
  /\ UNCHANGED <<file, last, loaded, recordVars>>

\* Another process reads the file once: Deno.readTextFile in Todo.load.
ReaderLoads ==
  /\ loaded = <<>>
  /\ loaded' = [text |-> file, todos |-> Load(file).todos,
                during |-> pc]
  /\ UNCHANGED <<pc, file, last, recordVars>>

InitSave ==
  /\ pc = "idle"
  /\ file \in {ls \o <<<<>>>> : ls \in SeqsUpTo(StoreLines, MaxLines)}
  /\ last = [op |-> "none", before |-> file]
  /\ loaded = <<>>
  /\ line = <<>>
  /\ todo = <<>>
  /\ text = <<>>
  /\ back = <<>>
  /\ args = <<>>

NextSave ==
  \/ \E inputs \in SeqsUpTo(IndexInputs, 1) : CompleteOpensFile(inputs)
  \/ \E n \in 1..MaxLines : SaveWrites(n)
  \/ SaveWritesNothing
  \/ ReaderLoads

SpecSave == InitSave /\ [][NextSave]_vars

\* C9: a reader sees the whole content from before the save or the whole
\* new content, never an empty or partly written file.
C9_SaveLooksAtomic ==
  (loaded # <<>> /\ last.op = "save") =>
    loaded.text \in {last.before, last.data}

====
